---------------------------- MODULE Spec2Model ----------------------------
(***************************************************************************)
(* R3KON GPT (src/main.py): the chat pipeline behind POST /api/chat.       *)
(*                                                                         *)
(*   Spec     the server: start_flask / load_model, then worker threads    *)
(*            running chat() -> generate_response() around model_lock.     *)
(*   AsmSpec  the context assembly and token budget of generate_response   *)
(*            (lines 102-118) applied to bounded requests.                 *)
(*   SanSpec  the post-processing of generate_response (lines 135-157)     *)
(*            applied, step by step, to bounded raw completions.           *)
(*                                                                         *)
(* Completion text is a sequence of Unicode code points (the sanitising    *)
(* steps look at single characters); prompt text is a TLA+ string (the     *)
(* assembly only concatenates).  JSON values are tagged records.           *)
(***************************************************************************)
EXTENDS Integers, Sequences, FiniteSets, TLC

VARIABLES
    \* ---- process-wide state (main.py lines 27-30) and the startup thread
    llm,            \* "None" | "Llama"
    model_loaded,   \* the ready flag
    model_lock,     \* 0 = free, otherwise the worker holding it
    flask_started,
    boot,           \* position of start_flask: "start" | "run" | "serving" | "failed"
    \* ---- one Flask worker thread per request (threaded=True)
    pc,             \* worker -> position inside chat()/generate_response()
    local,          \* worker -> the locals of chat()/generate_response()
    resp,           \* worker -> the HTTP answer of its current request
    acquired,       \* worker -> times its current request acquired model_lock
    engine_calls,   \* worker -> times its current request called llm(...)
    \* ---- AsmSpec: one request through lines 102-118
    asmPc, a_req, context_parts, full_prompt, max_tokens, a_exc,
    \* ---- SanSpec: one raw completion through lines 135-157
    sanPc, raw, bot_reply, chinese_chars, total_chars, unique_lines

serverVars == <<llm, model_loaded, model_lock, flask_started, boot,
                pc, local, resp, acquired, engine_calls>>
asmVars == <<asmPc, a_req, context_parts, full_prompt, max_tokens, a_exc>>
sanVars == <<sanPc, raw, bot_reply, chinese_chars, total_chars, unique_lines>>
vars == <<serverVars, asmVars, sanVars>>

(***************************************************************************)
(* Bounds of the model.                                                    *)
(***************************************************************************)
NThreads == 2
MaxRawLen == 3
MaxForeign == 31
MaxLatin == 69
MaxLines == 4
MaxHistory == 7

(***************************************************************************)
(* Characters.                                                             *)
(***************************************************************************)
SPACE == 32
NEWLINE == 10
CJK_LO == 19968
CJK_HI == 40959

\* str.isspace(): what str.strip() with no argument removes
PyWhitespace ==
    {9, 10, 11, 12, 13, 28, 29, 30, 31, 32, 133, 160, 5760, 8232, 8233,
     8239, 8287, 12288} \cup (8192..8202)

\* the character class [\u4e00-\u9fff]
IsChinese(c) == c >= CJK_LO /\ c <= CJK_HI

APOLOGY ==
    <<73, 32, 97, 112, 111, 108, 111, 103, 105, 122, 101, 44, 32, 98, 117,
      116, 32, 73, 32, 99, 97, 110, 32, 111, 110, 108, 121, 32, 114, 101,
      115, 112, 111, 110, 100, 32, 105, 110, 32, 69, 110, 103, 108, 105,
      115, 104, 46>>

REPHRASE ==
    <<73, 32, 101, 110, 99, 111, 117, 110, 116, 101, 114, 101, 100, 32, 97,
      110, 32, 105, 115, 115, 117, 101, 46, 32, 80, 108, 101, 97, 115, 101,
      32, 116, 114, 121, 32, 114, 101, 112, 104, 114, 97, 115, 105, 110,
      103, 32, 121, 111, 117, 114, 32, 113, 117, 101, 115, 116, 105, 111,
      110, 46>>

THRESHOLD_NUM == 3
THRESHOLD_DEN == 10
DEDUP_WINDOW == 2
MIN_REPLY_LEN == 10
CONTEXT_TURNS == 5
DEFAULT_TOKENS == 600

(***************************************************************************)
(* String primitives of the post-processing.                               *)
(***************************************************************************)
RECURSIVE LStrip(_)
LStrip(s) ==
    IF s # <<>> /\ Head(s) \in PyWhitespace THEN LStrip(Tail(s)) ELSE s

RECURSIVE RStrip(_)
RStrip(s) ==
    IF s # <<>> /\ s[Len(s)] \in PyWhitespace
    THEN RStrip(SubSeq(s, 1, Len(s) - 1))
    ELSE s

\* str.strip()
Strip(s) == RStrip(LStrip(s))

\* len(re.findall(r'[\u4e00-\u9fff]', s))
CountChinese(s) == Len(SelectSeq(s, IsChinese))

NotSpaceOrNewline(c) == c # SPACE /\ c # NEWLINE

\* len(s.replace(' ', '').replace('\n', ''))
CountTotal(s) == Len(SelectSeq(s, NotSpaceOrNewline))

\* the test with >= in place of >
RatioExceeds_Inclusive(k, n) == THRESHOLD_DEN * k >= THRESHOLD_NUM * n

\* chinese / total > 0.3 over Python floats.  k / n is the double nearest
\* to the quotient and 0.3 the double nearest to 3/10, so for the counts a
\* completion can have (far below 2^50) the test is 10 * k > 3 * n.
RatioExceeds(k, n) == THRESHOLD_DEN * k > THRESHOLD_NUM * n

NotChinese(c) == ~IsChinese(c)

\* re.sub(r'[\u4e00-\u9fff]+', '', s)
RemoveChinese(s) == SelectSeq(s, NotChinese)

RECURSIVE SkipNewlines(_)
SkipNewlines(s) ==
    IF s # <<>> /\ Head(s) = NEWLINE THEN SkipNewlines(Tail(s)) ELSE s

\* re.sub(r'\n\n+', '\n\n', s)
RECURSIVE CollapseNewlines(_)
CollapseNewlines(s) ==
    IF Len(s) < 2 THEN s
    ELSE IF s[1] = NEWLINE /\ s[2] = NEWLINE
         THEN <<NEWLINE, NEWLINE>> \o CollapseNewlines(SkipNewlines(s))
         ELSE <<Head(s)>> \o CollapseNewlines(Tail(s))

\* s.split('\n'): always at least one piece
RECURSIVE SplitFrom(_, _)
SplitFrom(s, cur) ==
    IF s = <<>> THEN <<cur>>
    ELSE IF Head(s) = NEWLINE THEN <<cur>> \o SplitFrom(Tail(s), <<>>)
    ELSE SplitFrom(Tail(s), Append(cur, Head(s)))

SplitLines(s) == SplitFrom(s, <<>>)

\* '\n'.join(ls)
RECURSIVE JoinLines(_)
JoinLines(ls) ==
    IF ls = <<>> THEN <<>>
    ELSE IF Len(ls) = 1 THEN ls[1]
    ELSE ls[1] \o <<NEWLINE>> \o JoinLines(Tail(ls))

\* kept[-1:]: only the line kept last
LastKept_One(kept) ==
    IF kept = <<>> THEN kept ELSE SubSeq(kept, Len(kept), Len(kept))

\* every kept line compared, not only the last two
LastKept_All(kept) == kept

\* kept[-2:]
LastKept(kept) ==
    IF Len(kept) <= DEDUP_WINDOW THEN kept
    ELSE SubSeq(kept, Len(kept) - DEDUP_WINDOW + 1, Len(kept))

InSeq(x, s) == \E i \in 1..Len(s) : s[i] = x

\* the test of line 151
KeepLine(line, kept) ==
    Strip(line) # <<>> /\ (kept = <<>> \/ ~InSeq(line, LastKept(kept)))

\* the loop of lines 149-152
RECURSIVE DedupFrom(_, _)
DedupFrom(lines, kept) ==
    IF lines = <<>> THEN kept
    ELSE DedupFrom(Tail(lines),
                   IF KeepLine(Head(lines), kept)
                   THEN Append(kept, Head(lines))
                   ELSE kept)

RemoveRepetition(lines) == DedupFrom(lines, <<>>)

(***************************************************************************)
(* The post-processing steps of generate_response.                         *)
(***************************************************************************)
\* lines 141-145, on the trimmed reply and its two counts
FilterChinese(reply, k, n) ==
    IF n > 0 /\ RatioExceeds(k, n)
    THEN APOLOGY
    ELSE Strip(CollapseNewlines(RemoveChinese(reply)))

\* the reply returned whatever its length
LengthGuard_None(reply) == reply

\* the fallback also for a reply of exactly 10 characters
LengthGuard_AtMost(reply) == IF Len(reply) <= MIN_REPLY_LEN THEN REPHRASE ELSE reply

\* lines 156-157
LengthGuard(reply) == IF Len(reply) < MIN_REPLY_LEN THEN REPHRASE ELSE reply

\* lines 135-157 as one function of the raw completion text
Sanitize(text) ==
    LET trimmed == Strip(text)
        filtered == FilterChinese(trimmed, CountChinese(trimmed), CountTotal(trimmed))
        kept == RemoveRepetition(SplitLines(filtered))
    IN  LengthGuard(JoinLines(kept))

(***************************************************************************)
(* JSON values of the request body, as Python sees them after request.json *)
(***************************************************************************)
JNull == [type |-> "null", val |-> "", items |-> <<>>]
JStr(v) == [type |-> "str", val |-> v, items |-> <<>>]
JNum(v) == [type |-> "num", val |-> v, items |-> <<>>]
JBool(b) == [type |-> "bool", val |-> IF b THEN "true" ELSE "false", items |-> <<>>]
JEmptyList == [type |-> "list", val |-> "", items |-> <<>>]
JDict(f) == [type |-> "dict", val |-> "", items |-> f]

\* Python truth value (if x:)
Truthy(j) ==
    CASE j.type = "null" -> FALSE
      [] j.type = "bool" -> j.val = "true"
      [] j.type = "str" -> j.val # ""
      [] j.type = "num" -> j.val # "0"
      [] j.type = "list" -> FALSE
      [] j.type = "dict" -> DOMAIN j.items # {}

\* whether hash(x) succeeds: lists and dicts are unhashable
Hashable(j) == j.type \notin {"list", "dict"}

\* d.get(key, default) on a dict d
DictGet(d, key, default) ==
    IF key \in DOMAIN d.items THEN d.items[key] ELSE default

(***************************************************************************)
(* Context assembly and token budget (generate_response, lines 102-118).   *)
(***************************************************************************)
SYSTEM_PROMPT ==
    "You are R3KON GPT, a professional cybersecurity assistant.\n" \o
    "CRITICAL RULES:\n" \o
    "1. ALWAYS respond in English only. Never use Chinese or any other language.\n" \o
    "2. Stay strictly on topic related to cybersecurity, programming, or the user's question.\n" \o
    "3. Keep responses clear, concise, and professional.\n" \o
    "4. Use structured formatting: bullet points, numbered lists, or paragraphs as appropriate.\n" \o
    "5. Never repeat yourself or generate repetitive content.\n" \o
    "6. If asked something off-topic, politely redirect to cybersecurity topics.\n"

token_limits == [short |-> 300, medium |-> 600, long |-> 1000]

\* history[:5]: the first turns instead of the last
LastTurns_First(history) ==
    IF Len(history) <= CONTEXT_TURNS THEN history
    ELSE SubSeq(history, 1, CONTEXT_TURNS)

\* history[-5:]
LastTurns(history) ==
    IF Len(history) <= CONTEXT_TURNS THEN history
    ELSE SubSeq(history, Len(history) - CONTEXT_TURNS + 1, Len(history))

\* the loop of lines 107-109
RECURSIVE RenderTurns(_)
RenderTurns(turns) ==
    IF turns = <<>> THEN <<>>
    ELSE <<"User: " \o Head(turns).user,
           "Assistant: " \o Head(turns).assistant>> \o RenderTurns(Tail(turns))

\* the history folded in whatever sessionMemory says
UseHistory_IgnoreFlag(config, history) == history # <<>>

\* line 105
UseHistory(config, history) ==
    Truthy(DictGet(config, "sessionMemory", JNull)) /\ history # <<>>

\* lines 103-112: the list context_parts
BuildContext(prompt, config, history) ==
    <<SYSTEM_PROMPT>>
    \o (IF UseHistory(config, history)
        THEN <<"\n--- Recent Conversation ---">> \o RenderTurns(LastTurns(history))
        ELSE <<>>)
    \o <<"\nUser: " \o prompt, "Assistant:">>

\* '\n'.join(parts), line 114
RECURSIVE JoinParts(_)
JoinParts(parts) ==
    IF parts = <<>> THEN ""
    ELSE IF Len(parts) = 1 THEN parts[1]
    ELSE parts[1] \o "\n" \o JoinParts(Tail(parts))

\* config.get('responseLength', 'medium'), line 118
RequestedLength(config) == DictGet(config, "responseLength", JStr("medium"))

\* token_limits.get(key, 600) for a hashable key, line 118
TokenLimit(key) ==
    IF key.type = "str" /\ key.val \in DOMAIN token_limits
    THEN token_limits[key.val]
    ELSE DEFAULT_TOKENS

\* What lines 105 and 118 raise, "" when nothing: config.get on a value that
\* is no dict, token_limits.get on an unhashable key.
ContextRaises(config) ==
    IF config.type # "dict" THEN "AttributeError: object has no attribute 'get'" ELSE ""

TokenRaises(config) ==
    IF ~Hashable(RequestedLength(config)) THEN "TypeError: unhashable type" ELSE ""

(***************************************************************************)
(* AsmSpec: lines 102-118 on one bounded request.                          *)
(***************************************************************************)
Turn1 == [user |-> "q1", assistant |-> "r1"]
Turn2 == [user |-> "q2", assistant |-> "r2"]
TurnPool == {Turn1, Turn2}

AsmHistories == UNION {[1..k -> TurnPool] : k \in 0..MaxHistory}

AsmMessages == {"What is a buffer overflow?", "User: hi"}

LengthValues ==
    {JStr("short"), JStr("medium"), JStr("long"), JStr("huge"), JStr(""),
     JNull, JNum("300"), JBool(TRUE), JEmptyList, JDict(<<>>)}

MemoryValues == {JBool(TRUE), JBool(FALSE)}

AsmConfigs ==
    {JNull, JDict(<<>>)}
    \cup {JDict([responseLength |-> r]) : r \in LengthValues}
    \cup {JDict([sessionMemory |-> m]) : m \in MemoryValues}
    \cup {JDict([responseLength |-> r, sessionMemory |-> m]) :
            r \in LengthValues, m \in MemoryValues}

NoRequest == [message |-> "", config |-> JNull, history |-> <<>>]

AsmIdle ==
    /\ asmPc = "off"
    /\ a_req = NoRequest
    /\ context_parts = <<>>
    /\ full_prompt = ""
    /\ max_tokens = 0
    /\ a_exc = ""

\* lines 102-114
AsmBuildContext ==
    /\ asmPc = "start"
    /\ IF ContextRaises(a_req.config) # ""
       THEN /\ a_exc' = ContextRaises(a_req.config)
            /\ asmPc' = "raised"
            /\ UNCHANGED <<context_parts, full_prompt>>
       ELSE /\ context_parts' = BuildContext(a_req.message, a_req.config, a_req.history)
            /\ full_prompt' = JoinParts(context_parts')
            /\ asmPc' = "built"
            /\ a_exc' = a_exc
    /\ UNCHANGED <<a_req, max_tokens>>
    /\ UNCHANGED <<serverVars, sanVars>>

\* lines 116-118
AsmTokenLimit ==
    /\ asmPc = "built"
    /\ IF TokenRaises(a_req.config) # ""
       THEN /\ a_exc' = TokenRaises(a_req.config)
            /\ asmPc' = "raised"
            /\ max_tokens' = max_tokens
       ELSE /\ max_tokens' = TokenLimit(RequestedLength(a_req.config))
            /\ asmPc' = "ready"
            /\ a_exc' = a_exc
    /\ UNCHANGED <<a_req, context_parts, full_prompt>>
    /\ UNCHANGED <<serverVars, sanVars>>

(***************************************************************************)
(* SanSpec: lines 135-157 on one bounded raw completion.                   *)
(***************************************************************************)
\* 'a', space, newline, tab, and one ideograph of the disallowed block
Alphabet == {97, SPACE, NEWLINE, 9, 20013}

Rep(c, n) == [i \in 1..n |-> c]

\* every text of up to MaxRawLen characters
ShortTexts == UNION {[1..k -> Alphabet] : k \in 0..MaxRawLen}

\* f ideographs, a separator, n letters: every ratio f / (f + n)
RatioTexts ==
    {Rep(20013, f) \o gap \o Rep(97, n) :
        f \in 0..MaxForeign, n \in 0..MaxLatin, gap \in {<<>>, <<SPACE>>, <<9>>}}

LineAlpha == <<65, 108, 112, 104, 97>>
LineBravo == <<66, 114, 97, 118, 111>>
LineDelta == <<68, 101, 108, 116, 97>>
LinePool == {LineAlpha, LineBravo, LineDelta, <<>>}

\* up to MaxLines lines of the pool, joined by newlines
LineTexts == {JoinLines(ls) : ls \in UNION {[1..k -> LinePool] : k \in 1..MaxLines}}

RawInputs == ShortTexts \cup RatioTexts \cup LineTexts

SanIdle ==
    /\ sanPc = "off"
    /\ raw = <<>>
    /\ bot_reply = <<>>
    /\ chinese_chars = 0
    /\ total_chars = 0
    /\ unique_lines = <<>>

\* line 135
SanTrim ==
    /\ sanPc = "raw"
    /\ bot_reply' = Strip(raw)
    /\ sanPc' = "trimmed"
    /\ UNCHANGED <<raw, chinese_chars, total_chars, unique_lines>>
    /\ UNCHANGED <<serverVars, asmVars>>

\* lines 137-145
SanFilter ==
    /\ sanPc = "trimmed"
    /\ chinese_chars' = CountChinese(bot_reply)
    /\ total_chars' = CountTotal(bot_reply)
    /\ bot_reply' = FilterChinese(bot_reply, chinese_chars', total_chars')
    /\ sanPc' = "filtered"
    /\ UNCHANGED <<raw, unique_lines>>
    /\ UNCHANGED <<serverVars, asmVars>>

\* lines 147-154
SanDedup ==
    /\ sanPc = "filtered"
    /\ unique_lines' = RemoveRepetition(SplitLines(bot_reply))
    /\ bot_reply' = JoinLines(unique_lines')
    /\ sanPc' = "joined"
    /\ UNCHANGED <<raw, chinese_chars, total_chars>>
    /\ UNCHANGED <<serverVars, asmVars>>

\* lines 156-159
SanGuard ==
    /\ sanPc = "joined"
    /\ bot_reply' = LengthGuard(bot_reply)
    /\ sanPc' = "done"
    /\ UNCHANGED <<raw, chinese_chars, total_chars, unique_lines>>
    /\ UNCHANGED <<serverVars, asmVars>>


(***************************************************************************)
(* chat() and generate_response() as seen by one worker thread.            *)
(***************************************************************************)
NoResp == [status |-> 0, key |-> "none", error |-> "", response |-> <<>>]

\* jsonify({"error": msg}), status
ErrorResp(status, msg) ==
    [status |-> status, key |-> "error", error |-> msg, response |-> <<>>]

\* jsonify({"response": text}), status
ReplyResp(status, text) ==
    [status |-> status, key |-> "response", error |-> "", response |-> text]

\* generate_response, lines 97-118: up to the with statement
GenerateEntry(loaded, prompt, config, history) ==
    IF ~loaded
    THEN [kind |-> "return", error |-> "Model not loaded",
          full_prompt |-> "", max_tokens |-> 0]
    ELSE IF ContextRaises(config) # ""
    THEN [kind |-> "raise", error |-> ContextRaises(config),
          full_prompt |-> "", max_tokens |-> 0]
    ELSE IF TokenRaises(config) # ""
    THEN [kind |-> "raise", error |-> TokenRaises(config),
          full_prompt |-> "", max_tokens |-> 0]
    ELSE [kind |-> "call", error |-> "",
          full_prompt |-> JoinParts(BuildContext(prompt, config, history)),
          max_tokens |-> TokenLimit(RequestedLength(config))]

\* chat without the readiness check of lines 812-813
ChatEntry_NoReadyCheck(loaded, message, config, history) ==
    IF message = ""
    THEN [pc |-> "done", resp |-> ErrorResp(400, "No message"),
          full_prompt |-> "", max_tokens |-> 0]
    ELSE LET g == GenerateEntry(loaded, message, config, history)
         IN  CASE g.kind = "return" ->
                    [pc |-> "done", resp |-> ErrorResp(200, g.error),
                     full_prompt |-> "", max_tokens |-> 0]
               [] g.kind = "raise" ->
                    [pc |-> "done", resp |-> ErrorResp(500, g.error),
                     full_prompt |-> "", max_tokens |-> 0]
               [] g.kind = "call" ->
                    [pc |-> "acquire", resp |-> NoResp,
                     full_prompt |-> g.full_prompt, max_tokens |-> g.max_tokens]

\* chat without the message check of lines 821-822
ChatEntry_NoMessageCheck(loaded, message, config, history) ==
    IF ~loaded
    THEN [pc |-> "done", resp |-> ErrorResp(500, "Model not loaded"),
          full_prompt |-> "", max_tokens |-> 0]
    ELSE LET g == GenerateEntry(loaded, message, config, history)
         IN  CASE g.kind = "return" ->
                    [pc |-> "done", resp |-> ErrorResp(200, g.error),
                     full_prompt |-> "", max_tokens |-> 0]
               [] g.kind = "raise" ->
                    [pc |-> "done", resp |-> ErrorResp(500, g.error),
                     full_prompt |-> "", max_tokens |-> 0]
               [] g.kind = "call" ->
                    [pc |-> "acquire", resp |-> NoResp,
                     full_prompt |-> g.full_prompt, max_tokens |-> g.max_tokens]

\* chat, lines 812-828, as far as the with statement of generate_response:
\* the worker's next position, its answer if it has one, and what it will
\* pass to the engine
ChatEntry(loaded, message, config, history) ==
    IF ~loaded
    THEN [pc |-> "done", resp |-> ErrorResp(500, "Model not loaded"),
          full_prompt |-> "", max_tokens |-> 0]
    ELSE IF message = ""
    THEN [pc |-> "done", resp |-> ErrorResp(400, "No message"),
          full_prompt |-> "", max_tokens |-> 0]
    ELSE LET g == GenerateEntry(loaded, message, config, history)
         IN  CASE g.kind = "return" ->
                    [pc |-> "done", resp |-> ErrorResp(200, g.error),
                     full_prompt |-> "", max_tokens |-> 0]
               [] g.kind = "raise" ->
                    [pc |-> "done", resp |-> ErrorResp(500, g.error),
                     full_prompt |-> "", max_tokens |-> 0]
               [] g.kind = "call" ->
                    [pc |-> "acquire", resp |-> NoResp,
                     full_prompt |-> g.full_prompt, max_tokens |-> g.max_tokens]

\* generate_response lines 135-163 and chat line 825: the answer once the
\* with statement is left, exc being the description of what llm(...)
\* raised ("" when it returned text)
ChatFinish(text, exc) ==
    IF exc # ""
    THEN ErrorResp(200, exc)
    ELSE ReplyResp(200, Sanitize(text))

\* an acquire that never waits
CanAcquire_NoWait == TRUE

\* Lock.acquire() of the with statement succeeds
CanAcquire == model_lock = 0

\* a with statement that leaves the lock with its holder
Released_Kept(t) == t

\* the lock after __exit__ of the with statement
Released(t) == 0

(***************************************************************************)
(* Spec: the server.                                                       *)
(***************************************************************************)
Workers == 1..NThreads

LoadOutcomes == {"loaded", "not_found", "raised"}

SrvMessages == {"", "What is a buffer overflow?"}

SrvMemoryConfig ==
    JDict([responseLength |-> JStr("short"), sessionMemory |-> JBool(TRUE)])

SrvConfigs ==
    {JNull, JDict(<<>>), SrvMemoryConfig, JDict([responseLength |-> JEmptyList])}

LongHistory == [i \in 1..(CONTEXT_TURNS + 1) |-> Turn1]

SrvHistories == {<<>>, LongHistory}

\* the request bodies: an empty message with every config and history, and
\* a question with each config
SrvRequests ==
    [message : {""}, config : SrvConfigs, history : SrvHistories]
    \cup [message : SrvMessages \ {""}, config : SrvConfigs \ {SrvMemoryConfig},
          history : {<<>>}]
    \cup [message : SrvMessages \ {""}, config : {SrvMemoryConfig},
          history : {LongHistory}]

\* "A buffer overflow writes past the end of a buffer."
GoodText ==
    <<65, 32, 98, 117, 102, 102, 101, 114, 32, 111, 118, 101, 114, 102, 108,
      111, 119, 32, 119, 114, 105, 116, 101, 115, 32, 112, 97, 115, 116, 32,
      116, 104, 101, 32, 101, 110, 100, 32, 111, 102, 32, 97, 32, 98, 117,
      102, 102, 101, 114, 46>>

EngineTexts == {GoodText, <<20013, 20013, 97>>}

EngineErrors == {"llama_decode returned -1"}

NoLocals ==
    [message |-> "", config |-> JNull, history |-> <<>>,
     full_prompt |-> "", max_tokens |-> 0, text |-> <<>>, exc |-> ""]

ServerIdle ==
    /\ llm = "None"
    /\ model_loaded = FALSE
    /\ model_lock = 0
    /\ flask_started = FALSE
    /\ boot = "start"
    /\ pc = [t \in Workers |-> "idle"]
    /\ local = [t \in Workers |-> NoLocals]
    /\ resp = [t \in Workers |-> NoResp]
    /\ acquired = [t \in Workers |-> 0]
    /\ engine_calls = [t \in Workers |-> 0]

\* start_flask line 834: load_model(), then line 835
LoadModel(outcome) ==
    /\ boot = "start"
    /\ IF outcome = "loaded"
       THEN llm' = "Llama" /\ model_loaded' = TRUE
       ELSE UNCHANGED <<llm, model_loaded>>
    /\ flask_started' = TRUE
    /\ boot' = "run"
    /\ UNCHANGED <<model_lock, pc, local, resp, acquired, engine_calls>>
    /\ UNCHANGED <<asmVars, sanVars>>

\* start_flask line 836: app.run starts serving
AppRun ==
    /\ boot = "run"
    /\ boot' = "serving"
    /\ UNCHANGED <<llm, model_loaded, model_lock, flask_started,
                   pc, local, resp, acquired, engine_calls>>
    /\ UNCHANGED <<asmVars, sanVars>>

\* start_flask lines 837-841: app.run raises
AppRunFails ==
    /\ boot = "run"
    /\ boot' = "failed"
    /\ flask_started' = FALSE
    /\ UNCHANGED <<llm, model_loaded, model_lock,
                   pc, local, resp, acquired, engine_calls>>
    /\ UNCHANGED <<asmVars, sanVars>>

\* a handler that loads the model itself when it finds the flag false
ChatReceive_Reload(t) ==
    /\ boot = "serving"
    /\ pc[t] \in {"idle", "done"}
    /\ model_loaded' = TRUE
    /\ llm' = "Llama"
    /\ \E data \in SrvRequests :
         LET e == ChatEntry(TRUE, data.message, data.config, data.history)
         IN  /\ pc' = [pc EXCEPT ![t] = e.pc]
             /\ resp' = [resp EXCEPT ![t] = e.resp]
             /\ local' = [local EXCEPT ![t] =
                    [message |-> data.message, config |-> data.config,
                     history |-> data.history,
                     full_prompt |-> e.full_prompt, max_tokens |-> e.max_tokens,
                     text |-> <<>>, exc |-> ""]]
    /\ acquired' = [acquired EXCEPT ![t] = 0]
    /\ engine_calls' = [engine_calls EXCEPT ![t] = 0]
    /\ UNCHANGED <<model_lock, flask_started, boot>>
    /\ UNCHANGED <<asmVars, sanVars>>

\* a worker takes a POST /api/chat and runs chat() up to the with statement
ChatReceive(t) ==
    /\ boot = "serving"
    /\ pc[t] \in {"idle", "done"}
    /\ \E data \in SrvRequests :
         LET e == ChatEntry(model_loaded, data.message, data.config, data.history)
         IN  /\ pc' = [pc EXCEPT ![t] = e.pc]
             /\ resp' = [resp EXCEPT ![t] = e.resp]
             /\ local' = [local EXCEPT ![t] =
                    [message |-> data.message, config |-> data.config,
                     history |-> data.history,
                     full_prompt |-> e.full_prompt, max_tokens |-> e.max_tokens,
                     text |-> <<>>, exc |-> ""]]
    /\ acquired' = [acquired EXCEPT ![t] = 0]
    /\ engine_calls' = [engine_calls EXCEPT ![t] = 0]
    /\ UNCHANGED <<llm, model_loaded, model_lock, flask_started, boot>>
    /\ UNCHANGED <<asmVars, sanVars>>

\* line 121 then line 122: the lock is taken and llm(...) is entered
AcquireLock(t) ==
    /\ pc[t] = "acquire"
    /\ CanAcquire
    /\ model_lock' = t
    /\ acquired' = [acquired EXCEPT ![t] = @ + 1]
    /\ engine_calls' = [engine_calls EXCEPT ![t] = @ + 1]
    /\ pc' = [pc EXCEPT ![t] = "in_engine"]
    /\ UNCHANGED <<llm, model_loaded, flask_started, boot, local, resp>>
    /\ UNCHANGED <<asmVars, sanVars>>

\* llm(...) returns a completion
EngineReturns(t) ==
    /\ pc[t] = "in_engine"
    /\ \E text \in EngineTexts :
         local' = [local EXCEPT ![t].text = text]
    /\ pc' = [pc EXCEPT ![t] = "exit_with"]
    /\ UNCHANGED <<llm, model_loaded, model_lock, flask_started, boot,
                   resp, acquired, engine_calls>>
    /\ UNCHANGED <<asmVars, sanVars>>

\* llm(...) raises
EngineRaises(t) ==
    /\ pc[t] = "in_engine"
    /\ \E e \in EngineErrors :
         local' = [local EXCEPT ![t].exc = e]
    /\ pc' = [pc EXCEPT ![t] = "exit_with"]
    /\ UNCHANGED <<llm, model_loaded, model_lock, flask_started, boot,
                   resp, acquired, engine_calls>>
    /\ UNCHANGED <<asmVars, sanVars>>

\* leaving the with statement, by return or by exception
ReleaseLock(t) ==
    /\ pc[t] = "exit_with"
    /\ model_lock' = Released(t)
    /\ pc' = [pc EXCEPT ![t] = "post"]
    /\ UNCHANGED <<llm, model_loaded, flask_started, boot,
                   local, resp, acquired, engine_calls>>
    /\ UNCHANGED <<asmVars, sanVars>>

\* a handler that goes back for the lock after an engine failure
ChatRespond_Retry(t) ==
    /\ pc[t] = "post"
    /\ IF local[t].exc # ""
       THEN /\ pc' = [pc EXCEPT ![t] = "acquire"]
            /\ local' = [local EXCEPT ![t].exc = ""]
            /\ resp' = resp
       ELSE /\ resp' = [resp EXCEPT ![t] = ChatFinish(local[t].text, local[t].exc)]
            /\ pc' = [pc EXCEPT ![t] = "done"]
            /\ local' = local
    /\ UNCHANGED <<llm, model_loaded, model_lock, flask_started, boot,
                   acquired, engine_calls>>
    /\ UNCHANGED <<asmVars, sanVars>>

\* lines 135-163, then chat line 825
ChatRespond(t) ==
    /\ pc[t] = "post"
    /\ resp' = [resp EXCEPT ![t] = ChatFinish(local[t].text, local[t].exc)]
    /\ pc' = [pc EXCEPT ![t] = "done"]
    /\ UNCHANGED <<llm, model_loaded, model_lock, flask_started, boot,
                   local, acquired, engine_calls>>
    /\ UNCHANGED <<asmVars, sanVars>>

Init == ServerIdle /\ AsmIdle /\ SanIdle

Next ==
    \/ \E outcome \in LoadOutcomes : LoadModel(outcome)
    \/ AppRun
    \/ AppRunFails
    \/ \E t \in Workers : ChatReceive(t)
    \/ \E t \in Workers : AcquireLock(t)
    \/ \E t \in Workers : EngineReturns(t)
    \/ \E t \in Workers : EngineRaises(t)
    \/ \E t \in Workers : ReleaseLock(t)
    \/ \E t \in Workers : ChatRespond(t)

Spec == Init /\ [][Next]_vars

\* The server under fair scheduling: every engine call ends (llm(...)
\* returns or raises), the with statement is always left, and a worker that
\* can take the lock again and again does take it.
FairSpec ==
    /\ Spec
    /\ \A t \in Workers : WF_vars(EngineReturns(t) \/ EngineRaises(t))
    /\ \A t \in Workers : WF_vars(ReleaseLock(t))
    /\ \A t \in Workers : SF_vars(AcquireLock(t))

AsmInit ==
    /\ ServerIdle
    /\ SanIdle
    /\ asmPc = "start"
    /\ a_req \in [message : AsmMessages, config : AsmConfigs, history : AsmHistories]
    /\ context_parts = <<>>
    /\ full_prompt = ""
    /\ max_tokens = 0
    /\ a_exc = ""

AsmNext == AsmBuildContext \/ AsmTokenLimit

AsmSpec == AsmInit /\ [][AsmNext]_vars

SanInit ==
    /\ ServerIdle
    /\ AsmIdle
    /\ sanPc = "raw"
    /\ raw \in RawInputs
    /\ bot_reply = <<>>
    /\ chinese_chars = 0
    /\ total_chars = 0
    /\ unique_lines = <<>>

SanNext == SanTrim \/ SanFilter \/ SanDedup \/ SanGuard

SanSpec == SanInit /\ [][SanNext]_vars


(***************************************************************************)
(* Properties of the server (Spec).                                        *)
(***************************************************************************)
InEngine == {t \in Workers : pc[t] = "in_engine"}

\* C1: at most one worker is inside llm(...) at any moment, and a worker
\* is inside llm(...), or has just left it and not yet left the with
\* statement, only while it is the holder of model_lock.
C1_OneEngineCall ==
    /\ Cardinality(InEngine) <= 1
    /\ \A t \in Workers : pc[t] \in {"in_engine", "exit_with"} => model_lock = t

\* one request is inside the engine while another waits for the lock
C1_Witness ==
    \E t, u \in Workers : pc[t] = "in_engine" /\ pc[u] = "acquire" /\ model_lock = t

\* C2: with the model loaded and a non-empty message, a request whose
\* engine call raised is answered with status 500 and an error field that
\* carries the exception's description, never with status 200.
C2_EngineFailureIs500 ==
    \A t \in Workers :
        (pc[t] = "done" /\ model_loaded /\ local[t].message # "" /\ local[t].exc # "")
        => /\ resp[t].status = 500
           /\ resp[t].key = "error"
           /\ resp[t].error = local[t].exc

\* C3 as claimed: a request whose message is the empty string is answered
\* with 400 in every state of the server, model loaded or not.
C3_EmptyMessageAlways400 ==
    \A t \in Workers :
        (pc[t] = "done" /\ local[t].message = "") => resp[t].status = 400

\* C3 as amended: a request whose message is the empty string is answered
\* with 400 and an error field, whatever its config and history, when the
\* model is loaded; when the model is not loaded the readiness check comes
\* first and the answer is 500 with an error field.
C3_EmptyMessage400WhenLoaded ==
    \A t \in Workers :
        (pc[t] = "done" /\ local[t].message = "")
        => /\ resp[t].key = "error"
           /\ model_loaded => resp[t].status = 400
           /\ ~model_loaded => resp[t].status = 500
           /\ acquired[t] = 0

\* an empty message with a config that is no object and a long history,
\* answered 400 by the loaded server
C3_Witness ==
    \E t \in Workers :
        /\ pc[t] = "done" /\ model_loaded
        /\ local[t].message = "" /\ local[t].config = JNull
        /\ Len(local[t].history) > CONTEXT_TURNS
        /\ resp[t].status = 400

\* C4: while the ready flag is false every handled chat request is
\* answered with 500 and an error field, having neither acquired
\* model_lock nor called the engine, and model_lock stays free.
C4_NotReadyFailsFast ==
    (boot = "serving" /\ ~model_loaded)
    => /\ model_lock = 0
       /\ \A t \in Workers :
            /\ pc[t] \in {"idle", "done"}
            /\ acquired[t] = 0
            /\ engine_calls[t] = 0
            /\ pc[t] = "done" => (resp[t].status = 500 /\ resp[t].key = "error")

\* a request with a non-empty message answered 500 while the flag is false
C4_Witness ==
    \E t \in Workers :
        /\ boot = "serving" /\ ~model_loaded
        /\ pc[t] = "done" /\ local[t].message # ""
        /\ resp[t] = ErrorResp(500, "Model not loaded")
        /\ model_lock = 0

\* C12: the ready flag is false until the startup load has run; it is
\* written only by the step that runs load_model, only from false to true,
\* and that step is never taken again: once start_flask is past load_model
\* no step (no request handler, no retry) changes the flag, so it never
\* goes back to false and after a failed load it stays false.
C12_FlagWrittenOnce ==
    /\ [](boot = "start" => ~model_loaded)
    /\ [][boot # "start" => (boot' # "start" /\ model_loaded' = model_loaded)]_vars
    /\ [][model_loaded' # model_loaded
          => (boot = "start" /\ ~model_loaded /\ model_loaded')]_vars

\* the load has failed and a request has been handled since: flag still false
C12_Witness ==
    /\ boot = "serving"
    /\ ~model_loaded
    /\ \E t \in Workers : pc[t] = "done" /\ resp[t].status = 500

\* C15: a request enters llm(...) at most once and takes model_lock at
\* most once; a request whose engine call raised is answered after that one
\* call; a request rejected for its empty message has not taken the lock
\* and has not called the engine.
C15_AtMostOneEngineCall ==
    \A t \in Workers :
        /\ engine_calls[t] <= 1
        /\ acquired[t] <= 1
        /\ (pc[t] = "done" /\ local[t].exc # "") => engine_calls[t] = 1
        /\ (pc[t] = "done" /\ resp[t].status = 400)
           => (local[t].message = "" /\ engine_calls[t] = 0 /\ acquired[t] = 0)

\* a request answered after its single engine call raised
C15_Witness ==
    \E t \in Workers :
        /\ pc[t] = "done"
        /\ local[t].exc # ""
        /\ resp[t].key = "error"
        /\ engine_calls[t] = 1

\* C16: model_lock is held only by a worker whose engine call is running
\* or has just ended inside the with statement; leaving the with statement
\* frees it, whether llm(...) returned or raised, so the sanitising steps
\* run, and every request finishes, without the lock; and under fair
\* scheduling every worker waiting for the lock gets to call the engine.
C16_LockReleased ==
    /\ [](\A t \in Workers :
            pc[t] \in {"idle", "acquire", "post", "done"} => model_lock # t)
    /\ [][\A t \in Workers :
            (pc[t] = "exit_with" /\ pc'[t] # "exit_with")
            => (pc'[t] = "post" /\ model_lock = t /\ model_lock' = 0)]_vars
    /\ \A t \in Workers : (pc[t] = "acquire") ~> (pc[t] = "in_engine")

\* one worker has left the with statement after its engine call raised,
\* the lock is free, and another worker is waiting for it
C16_Witness ==
    \E t, u \in Workers :
        /\ pc[t] = "post" /\ local[t].exc # ""
        /\ model_lock = 0
        /\ pc[u] = "acquire"

(***************************************************************************)
(* Properties of the post-processing (SanSpec).                            *)
(***************************************************************************)
Disallowed == CJK_LO..CJK_HI

Positions(s, S) == {i \in 1..Len(s) : s[i] \in S}

\* C5: the sanitising steps have a result for every raw completion, and
\* the reply they end with (step by step, or as one function of the raw
\* text) has at least 10 characters, none of them in U+4E00..U+9FFF.
C5_SanitizeTotal ==
    /\ sanPc # "off" =>
         /\ Len(Sanitize(raw)) >= 10
         /\ Positions(Sanitize(raw), Disallowed) = {}
    /\ sanPc = "done" =>
         /\ Len(bot_reply) >= 10
         /\ Positions(bot_reply, Disallowed) = {}

\* a completion made only of disallowed characters, sanitised
C5_Witness ==
    /\ sanPc = "done"
    /\ raw # <<>>
    /\ Positions(raw, Disallowed) = 1..Len(raw)
    /\ Len(bot_reply) >= 10

OnlySpacesAndNewlines(s) ==
    \A i \in 1..Len(s) : s[i] \in PyWhitespace => s[i] \in {32, 10}

IsTrimmed(s) ==
    s # <<>> => (s[1] \notin PyWhitespace /\ s[Len(s)] \notin PyWhitespace)

NonWhite(c) == c \notin PyWhitespace

AllowedNonWhite(c) == c \notin PyWhitespace /\ c \notin Disallowed

\* C9: for a trimmed completion whose only whitespace is spaces and
\* newlines, with f disallowed characters among n non-whitespace ones, the
\* reply is the apology exactly when 10 * f > 3 * n; otherwise its other
\* characters are all kept, in order, and the disallowed ones are gone.
C9_Threshold ==
    (sanPc \in {"filtered", "joined", "done"} /\ IsTrimmed(raw) /\ OnlySpacesAndNewlines(raw))
    => LET f == Cardinality(Positions(raw, Disallowed))
           n == Len(raw) - Cardinality(Positions(raw, PyWhitespace))
       IN  /\ (bot_reply = APOLOGY) <=> (10 * f > 3 * n)
           /\ (sanPc = "filtered" /\ ~(10 * f > 3 * n))
              => SelectSeq(bot_reply, NonWhite) = SelectSeq(raw, AllowedNonWhite)

\* ratio exactly 3 / 10: not replaced, the three ideographs stripped
C9_Witness ==
    /\ sanPc = "filtered"
    /\ raw = Rep(20013, 3) \o Rep(97, 7)
    /\ bot_reply = Rep(97, 7)

C10_Lines == {LineAlpha, LineBravo, LineDelta}

C10_Input(A, B) == A \o <<10>> \o A \o <<10>> \o B \o <<10>> \o A

\* C10 as claimed: the non-blank lines A, A, B, A come out as A, B, A.
C10_KeepsThirdA ==
    \A A, B \in C10_Lines :
        (A # B /\ raw = C10_Input(A, B) /\ sanPc = "joined")
        => unique_lines = <<A, B, A>>

\* C10 as amended: the non-blank lines A, A, B, A come out as A, B (the
\* last A equals one of the 2 lines kept just before it and is dropped).
C10_DropsThirdA ==
    \A A, B \in C10_Lines :
        (A # B /\ raw = C10_Input(A, B) /\ sanPc = "joined")
        => /\ unique_lines = <<A, B>>
           /\ bot_reply = A \o <<10>> \o B

C10_Witness ==
    /\ sanPc = "joined"
    /\ raw = C10_Input(LineAlpha, LineBravo)
    /\ unique_lines = <<LineAlpha, LineBravo>>

NoRepeatedLine(ls) == \A i, j \in 1..Len(ls) : i # j => ls[i] # ls[j]

NoBlankLine(ls) == \A i \in 1..Len(ls) : Positions(ls[i], PyWhitespace) # 1..Len(ls[i])

\* clean as the claim has it: no disallowed character, no repeated line,
\* at least 10 characters
CleanAsClaimed(x) ==
    /\ Positions(x, Disallowed) = {}
    /\ NoRepeatedLine(SplitLines(x))
    /\ Len(x) >= 10

\* C11 as claimed: a text that is clean (no disallowed character, no
\* repeated line, at least 10 characters) comes out of the sanitising
\* steps unchanged, and unchanged again from a second application.
C11_CleanUnchanged ==
    (sanPc = "done" /\ CleanAsClaimed(raw))
    => /\ bot_reply = raw
       /\ Sanitize(bot_reply) = raw

\* C11 as amended: a clean text that also has no leading or trailing
\* whitespace and no blank (empty or whitespace-only) line comes out
\* unchanged, and unchanged again from a second application.
C11_TrimmedCleanUnchanged ==
    (sanPc = "done" /\ CleanAsClaimed(raw) /\ IsTrimmed(raw) /\ NoBlankLine(SplitLines(raw)))
    => /\ bot_reply = raw
       /\ Sanitize(bot_reply) = raw

\* three distinct lines, 17 characters, sanitised to themselves
C11_Witness ==
    /\ sanPc = "done"
    /\ raw = LineAlpha \o <<10>> \o LineBravo \o <<10>> \o LineDelta
    /\ bot_reply = raw

NonBlankLine(l) == \E i \in 1..Len(l) : l[i] \notin PyWhitespace

\* The positions, among the lines L[1..i], of the lines a window of the 2
\* most recently kept lines retains: line i is dropped exactly when it
\* equals the line at one of the (at most) 2 positions retained last.
RECURSIVE WindowKept(_, _)
WindowKept(L, i) ==
    IF i = 0 THEN <<>>
    ELSE LET k == WindowKept(L, i - 1)
             recent == {k[j] : j \in {j \in 1..Len(k) : j > Len(k) - 2}}
         IN  IF \E p \in recent : L[p] = L[i] THEN k ELSE Append(k, i)

\* C13: the deduplication step keeps, of the non-blank lines in order,
\* exactly those that differ from both of the (at most) 2 lines kept
\* immediately before them; so in its result no line equals either of the 2
\* lines before it, and a line is never dropped for a kept line further back.
C13_SlidingWindow ==
    [][sanPc = "filtered"
       => LET L == SelectSeq(SplitLines(bot_reply), NonBlankLine)
              k == WindowKept(L, Len(L))
          IN  /\ unique_lines' = [j \in 1..Len(k) |-> L[k[j]]]
              /\ \A j \in 2..Len(unique_lines') :
                    /\ unique_lines'[j] # unique_lines'[j - 1]
                    /\ j > 2 => unique_lines'[j] # unique_lines'[j - 2]
              /\ bot_reply' = JoinLines(unique_lines')]_vars

\* the fourth line equals the line kept 3 positions back, and is retained
C13_Witness ==
    /\ sanPc = "joined"
    /\ raw = LineAlpha \o <<10>> \o LineBravo \o <<10>> \o LineDelta \o <<10>> \o LineAlpha
    /\ unique_lines = <<LineAlpha, LineBravo, LineDelta, LineAlpha>>

\* C14: the ratio is taken over the non-whitespace characters of the
\* reply, whitespace of every kind (space, newline, tab, carriage return)
\* left out, so the reply is replaced by the apology exactly when more than
\* 0.3 of its non-whitespace characters are disallowed ones, and interior
\* whitespace never changes that.
C14_DecisionIgnoresWhitespace ==
    sanPc \in {"filtered", "joined", "done"}
    => LET f == Cardinality(Positions(raw, Disallowed))
           n == Len(raw) - Cardinality(Positions(raw, PyWhitespace))
       IN  (bot_reply = APOLOGY) <=> (10 * f > 3 * n)

(***************************************************************************)
(* Properties of the context assembly (AsmSpec).                           *)
(***************************************************************************)
MemoryOn(config) ==
    /\ config.type = "dict"
    /\ "sessionMemory" \in DOMAIN config.items
    /\ config.items["sessionMemory"] = JBool(TRUE)

TurnText(turn) ==
    "User: " \o turn.user \o "\n" \o "Assistant: " \o turn.assistant \o "\n"

\* the transcript of turns i..Len(h), each turn as two labelled lines
RECURSIVE TranscriptFrom(_, _)
TranscriptFrom(h, i) ==
    IF i > Len(h) THEN "" ELSE TurnText(h[i]) \o TranscriptFrom(h, i + 1)

\* C6: with sessionMemory true and more than 5 turns of history, the
\* prompt holds the last 5 turns and no other: after the directive and the
\* transcript header come, for turns n-4 .. n in that order, a user line
\* and an assistant line, then the new message and the open assistant label.
C6_LastFiveTurns ==
    (asmPc \in {"built", "ready"} /\ MemoryOn(a_req.config) /\ Len(a_req.history) > 5)
    => LET h == a_req.history
           n == Len(h)
       IN  /\ Len(context_parts) = 14
           /\ \A i \in 1..5 :
                /\ context_parts[2 * i + 1] = "User: " \o h[n - 5 + i].user
                /\ context_parts[2 * i + 2] = "Assistant: " \o h[n - 5 + i].assistant
           /\ full_prompt =
                SYSTEM_PROMPT \o "\n" \o "\n--- Recent Conversation ---" \o "\n"
                \o TurnText(h[n - 4]) \o TurnText(h[n - 3]) \o TurnText(h[n - 2])
                \o TurnText(h[n - 1]) \o TurnText(h[n])
                \o "\nUser: " \o a_req.message \o "\n" \o "Assistant:"

\* seven turns, the two dropped ones unlike the five kept
C6_Witness ==
    /\ asmPc = "built"
    /\ MemoryOn(a_req.config)
    /\ a_req.history = <<Turn1, Turn1, Turn2, Turn2, Turn2, Turn2, Turn2>>
    /\ Len(context_parts) = 14

\* C7: the prompt is the directive, then the transcript if there is one,
\* then the new message as a user line, then the assistant label with
\* nothing after it; with sessionMemory not true, or an empty history,
\* there is no transcript and no turn of the history in the prompt.
C7_PromptShape ==
    asmPc \in {"built", "ready"}
    => LET h == a_req.history
           n == Len(context_parts)
           first == IF Len(h) > 5 THEN Len(h) - 4 ELSE 1
           transcript ==
               IF MemoryOn(a_req.config) /\ h # <<>>
               THEN "\n--- Recent Conversation ---" \o "\n" \o TranscriptFrom(h, first)
               ELSE ""
       IN  /\ n >= 3
           /\ context_parts[1] = SYSTEM_PROMPT
           /\ context_parts[n - 1] = "\nUser: " \o a_req.message
           /\ context_parts[n] = "Assistant:"
           /\ full_prompt =
                SYSTEM_PROMPT \o "\n" \o transcript
                \o "\nUser: " \o a_req.message \o "\n" \o "Assistant:"
           /\ (~MemoryOn(a_req.config) \/ h = <<>>) => n = 3

\* sessionMemory false with a full history: no turn in the prompt
C7_Witness ==
    /\ asmPc = "ready"
    /\ a_req.config.type = "dict"
    /\ "sessionMemory" \in DOMAIN a_req.config.items
    /\ a_req.config.items["sessionMemory"] = JBool(FALSE)
    /\ Len(a_req.history) = 7
    /\ Len(context_parts) = 3

\* C8: for a config object the budget is resolved for every value of
\* responseLength, and also without one: 300 for short, 600 for medium,
\* 1000 for long, 600 otherwise; no value makes the request fail.
C8_TokenBudget ==
    (asmPc \in {"built", "ready", "raised"} /\ a_req.config.type = "dict")
    => /\ asmPc # "raised"
       /\ asmPc = "ready" =>
            LET d == a_req.config.items
                r == IF "responseLength" \in DOMAIN d THEN d["responseLength"] ELSE JNull
            IN  max_tokens = CASE r = JStr("short") -> 300
                               [] r = JStr("medium") -> 600
                               [] r = JStr("long") -> 1000
                               [] OTHER -> 600


=============================================================================
